---------------------------- MODULE Spec2Model ----------------------------
(***************************************************************************)
(* A model of thrill/common/json_logger.hpp: JsonLogger (the collector     *)
(* stream oss_, the counter elements_ and Output() to std::cout) and       *)
(* JsonLine (the handle whose destructor delivers the line).               *)
(*                                                                         *)
(* Text is a sequence of characters, a character is a one-letter string;  *)
(* the characters TLA+ cannot write in a string carry their ASCII names:  *)
(* "BS" (0x08), "FF" (0x0C), "LF" (0x0A), "CR" (0x0D), "TAB" (0x09),       *)
(* "SOH" (0x01, a control character the escaping switch does not list)     *)
(* and "NUL" (0x00).                                                       *)
(***************************************************************************)
EXTENDS Integers, Sequences, FiniteSets, TLC

VARIABLES
    oss_,          \* JsonLogger::oss_, the collector stream's content
    elements_,     \* JsonLogger::elements_
    cout,          \* what has been written to std::cout, character by character
    live,          \* number of JsonLine objects the callers hold (not yet destroyed)
    aborted,       \* a failed assert() has ended the process
    nrvo,          \* build: "return out;" constructs in place (no move, no destructor);
                   \* the language allows it and does not require it
    elide_tmp,     \* build: "JsonLine out = line();" constructs in place (required
                   \* from C++17 on, allowed before)
    ndebug,        \* build: NDEBUG is defined, assert() expands to nothing
    clock,         \* std::chrono::steady_clock in microseconds
    fields,        \* history: the values put since the last line(), "ts" and its value first
    lastOp,        \* history: the operation that made the last step
    started,       \* history: number of records begun (calls of line())
    released,      \* history: number of caller-held JsonLine objects destroyed
    outputs,       \* history: number of calls of JsonLogger::Output()
    overlapped,    \* history: a record was begun while a JsonLine was still held
    appends,       \* history: number of values the callers have put
    prevElements,  \* history: elements_ before the last step
    sink_broken,   \* the device behind std::cout takes no more output: every write fails
    raised,        \* an exception or error result left the last operation
    prod,          \* the producers that share the logger: what each has put into its record
    mutex,         \* the callers' mutex of the logger: its holder, or "free"
    policy,        \* what the callers hold the mutex for: one "call" or a whole "record"
    actor,         \* history: the producer that made the last step
    node           \* a GenerateFileNode and its run of PushData

vars == <<oss_, elements_, cout, live, aborted, nrvo, elide_tmp, ndebug, clock,
          fields, lastOp, started, released, outputs, overlapped, appends,
          prevElements, sink_broken, raised, prod, mutex, policy, actor, node>>

-----------------------------------------------------------------------------
(* Bounds of the model *)

MaxRecords == 2

MaxAppends == 4

-----------------------------------------------------------------------------
(* Characters *)

Backslash == "\\"

Quote == "\""

\* the characters PutEscapedChar's switch lists, with the letter written after '\'
EscapeLetter ==
    [c \in {Backslash, Quote, "/", "BS", "FF", "LF", "CR", "TAB"} |->
        CASE c = Backslash -> Backslash
          [] c = Quote     -> Quote
          [] c = "/"       -> "/"
          [] c = "BS"      -> "b"
          [] c = "FF"      -> "f"
          [] c = "LF"      -> "n"
          [] c = "CR"      -> "r"
          [] c = "TAB"     -> "t"]

\* characters below 0x20
ControlChars == {"BS", "FF", "LF", "CR", "TAB", "SOH", "NUL"}

DigitChars == <<"0", "1", "2", "3", "4", "5", "6", "7", "8", "9">>

-----------------------------------------------------------------------------
(* Values a JsonLine accepts: the Put overloads *)

BoolV(b) == [kind |-> "bool", val |-> b]

IntV(i) == [kind |-> "int", val |-> i]

StrV(s) == [kind |-> "str", val |-> s]

VecV(v) == [kind |-> "vec", val |-> v]

\* a fixed-size character array (const char[N]); a string literal ends with "NUL"
CArr(a) == [kind |-> "carr", val |-> a]

\* a JsonLogger as a value: the pair the JsonLine operations work on
Logger(o, n) == [oss |-> o, n |-> n]

\* oss_ << text
Write(L, text) == [L EXCEPT !.oss = @ \o text]

\* operator<< of std::ostream for a non-negative integer: decimal digits
RECURSIVE NatToChars(_)
NatToChars(n) ==
    IF n < 10 THEN <<DigitChars[n + 1]>>
    ELSE NatToChars(n \div 10) \o <<DigitChars[(n % 10) + 1]>>

\* operator<< of std::ostream for int / long: sign only if negative
IntToChars(i) == IF i < 0 THEN <<"-">> \o NatToChars(-i) ELSE NatToChars(i)

PutSeparator_SwappedParity(L) ==
    [oss |-> IF L.n > 0
             THEN L.oss \o <<IF L.n % 2 = 0 THEN ":" ELSE ",">>
             ELSE L.oss,
     n   |-> L.n + 1]

\* JsonLine::PutSeparator
PutSeparator(L) ==
    [oss |-> IF L.n > 0
             THEN L.oss \o <<IF L.n % 2 = 0 THEN "," ELSE ":">>
             ELSE L.oss,
     n   |-> L.n + 1]

PutEscapedChar_NoQuoteCase(L, ch) ==
    IF ch \in DOMAIN EscapeLetter /\ ch # Quote
    THEN Write(L, <<Backslash, EscapeLetter[ch]>>)
    ELSE Write(L, <<ch>>)

PutEscapedChar_NoNewlineCase(L, ch) ==
    IF ch \in DOMAIN EscapeLetter /\ ch # "LF"
    THEN Write(L, <<Backslash, EscapeLetter[ch]>>)
    ELSE Write(L, <<ch>>)

PutEscapedChar_NoBackslashCase(L, ch) ==
    IF ch \in DOMAIN EscapeLetter /\ ch # Backslash
    THEN Write(L, <<Backslash, EscapeLetter[ch]>>)
    ELSE Write(L, <<ch>>)

PutEscapedChar_TabAsNewline(L, ch) ==
    IF ch \in DOMAIN EscapeLetter
    THEN Write(L, <<Backslash, IF ch = "TAB" THEN "n" ELSE EscapeLetter[ch]>>)
    ELSE Write(L, <<ch>>)

PutEscapedChar_DropsControls(L, ch) ==
    CASE ch \in DOMAIN EscapeLetter -> Write(L, <<Backslash, EscapeLetter[ch]>>)
      [] ch \in ControlChars        -> L
      [] OTHER                      -> Write(L, <<ch>>)

\* JsonLine::PutEscapedChar
PutEscapedChar(L, ch) ==
    CASE ch = Backslash -> Write(L, <<Backslash, Backslash>>)
      [] ch = Quote     -> Write(L, <<Backslash, Quote>>)
      [] ch = "/"       -> Write(L, <<Backslash, "/">>)
      [] ch = "BS"      -> Write(L, <<Backslash, "b">>)
      [] ch = "FF"      -> Write(L, <<Backslash, "f">>)
      [] ch = "LF"      -> Write(L, <<Backslash, "n">>)
      [] ch = "CR"      -> Write(L, <<Backslash, "r">>)
      [] ch = "TAB"     -> Write(L, <<Backslash, "t">>)
      [] OTHER          -> Write(L, <<ch>>)

\* the loop of Put(JsonLine&, std::string const&) over str[i..]
RECURSIVE PutChars(_, _, _)
PutChars(L, str, i) ==
    IF i > Len(str) THEN L
    ELSE PutChars(PutEscapedChar(L, str[i]), str, i + 1)

\* Put(JsonLine&, bool const&)
PutBool(L, value) == Write(L, IF value THEN <<"t", "r", "u", "e">>
                                       ELSE <<"f", "a", "l", "s", "e">>)

\* Put(JsonLine&, int const&), Put(JsonLine&, long const&)
PutInt(L, value) == Write(L, IntToChars(value))

\* Put(JsonLine&, std::string const&)
PutString(L, str) == Write(PutChars(Write(L, <<Quote>>), str, 1), <<Quote>>)

\* the loop of Put(JsonLine&, const char* const&) over str[i..], up to the NUL
RECURSIVE PutCChars(_, _, _)
PutCChars(L, str, i) ==
    IF i > Len(str) \/ str[i] = "NUL" THEN L
    ELSE PutCChars(PutEscapedChar(L, str[i]), str, i + 1)

PutCString_NoQuotes(L, str) == PutCChars(L, str, 1)

\* Put(JsonLine&, const char* const&)
PutCString(L, str) == Write(PutCChars(Write(L, <<Quote>>), str, 1), <<Quote>>)

RECURSIVE PutDecay(_, _)
RECURSIVE PutVecElems(_, _, _)

PutVecElems_CommaBeforeEach(L, vec, i) ==
    IF i > Len(vec) THEN L
    ELSE PutVecElems(PutDecay(Write(L, <<",">>), vec[i]), vec, i + 1)

\* the loop of Put(JsonLine&, std::vector<Type> const&) over vec[i..]
PutVecElems(L, vec, i) ==
    IF i > Len(vec) THEN L
    ELSE PutVecElems(PutDecay(IF i # 1 THEN Write(L, <<",">>) ELSE L, vec[i]),
                     vec, i + 1)

\* Put(JsonLine&, std::vector<Type> const&)
PutVector(L, vec) == Write(PutVecElems(Write(L, <<"[">>), vec, 1), <<"]">>)

\* JsonLine::PutDecay: the Put overload of the value's type
PutDecay(L, t) ==
    CASE t.kind = "bool" -> PutBool(L, t.val)
      [] t.kind = "int"  -> PutInt(L, t.val)
      [] t.kind = "str"  -> PutString(L, t.val)
      [] t.kind = "carr" -> PutCString(L, t.val)
      [] t.kind = "vec"  -> PutVector(L, t.val)

\* JsonLine::operator<<
Shl(L, t) == PutDecay(PutSeparator(L), t)

OutputText_Unbraced(o) == o \o <<"LF">>

\* what JsonLogger::Output() writes for the collector content o
OutputText(o) == <<"{">> \o o \o <<"}", "LF">>

-----------------------------------------------------------------------------
(* The process: the logger, std::cout and whether assert() has aborted *)

Proc(L, c, a, k) == [L |-> L, cout |-> c, aborted |-> a, outputs |-> k]

\* JsonLogger::Output: std::cout << '{' << oss_.str() << '}' << std::endl;
\* a write that fails sets the stream's badbit and nothing else: std::cout
\* throws no exception (its exception mask is never set) and Output returns
\* void without looking at the stream's state
Output(P) ==
    IF sink_broken THEN [P EXCEPT !.outputs = @ + 1]
    ELSE [P EXCEPT !.cout = @ \o OutputText(P.L.oss), !.outputs = @ + 1]

\* JsonLine::~JsonLine: assert(logger_.elements_ % 2 == 0); logger_.Output();
\* it runs for every JsonLine object, a moved-from one included (the move
\* constructor is defaulted and the class keeps no moved-from mark)
Destroy(P) ==
    IF P.aborted THEN P
    ELSE IF ~ndebug /\ P.L.n % 2 # 0 THEN [P EXCEPT !.aborted = TRUE]
    ELSE Output(P)

\* the string literal "ts", a const char[3]
TsKey == CArr(<<"t", "s", "NUL">>)

ResetLogger_KeepsCounter(L) == Logger(<<>>, L.n)

ResetLogger_KeepsBuffer(L) == Logger(L.oss, 0)

\* oss_.str(""); elements_ = 0;
ResetLogger(L) == Logger(<<>>, 0)

\* JsonLogger::line with the clock reading ts; "return out;" moves out into the
\* result and destroys out unless the build constructs it in place
Line(P, ts) ==
    LET P1 == [P EXCEPT !.L = Shl(Shl(ResetLogger(P.L), TsKey), IntV(ts))]
    IN  IF nrvo THEN P1 ELSE Destroy(P1)

\* JsonLogger::operator<<: JsonLine out = line(); out << t; return out;
LoggerShl(P, ts, t) ==
    LET P1 == Line(P, ts)
        P2 == IF elide_tmp THEN P1 ELSE Destroy(P1)
        P3 == [P2 EXCEPT !.L = Shl(@, t)]
    IN  IF nrvo THEN P3 ELSE Destroy(P3)

Even(n) == n % 2 = 0

\* JsonLine::operator<< in a process: nothing runs once assert() has aborted
ShlP(P, t) == IF P.aborted THEN P ELSE [P EXCEPT !.L = Shl(@, t)]

\* the statement  logger << k << v;  the JsonLine is destroyed at its end
EmitPair(P, ts, k, v) == Destroy(ShlP(LoggerShl(P, ts, k), v))

\* the statement  logger.line() << k << v;
LinePair(P, ts, k, v) == Destroy(ShlP(ShlP(Line(P, ts), k), v))

-----------------------------------------------------------------------------
(* Inputs *)

\* the reading of std::chrono::steady_clock when the process starts: one
\* digit, two digits from the next reading on
ClockStarts == {9}

\* the keys the callers put: a plain text and a text with a separator and a
\* quote in it
Keys ==
    { StrV(<<"k">>),
      StrV(<<":", Quote>>) }

\* the values the callers put after a key: a text with a separator and
\* escaped characters, a text with a control character outside the escaping
\* table, an integer, and a nested sequence with an empty sequence in it
Values ==
    { StrV(<<",", "LF", "CR", Backslash>>),
      StrV(<<"SOH">>),
      IntV(-42),
      VecV(<<BoolV(TRUE), VecV(<<>>), StrV(<<",">>)>>) }

\* callers put a key when the counter is even and a value when it is odd
Inputs(n) == IF n % 2 = 0 THEN Keys ELSE Values

-----------------------------------------------------------------------------
(* The state machine *)

Cur == Proc(Logger(oss_, elements_), cout, aborted, outputs)

\* no producers and no GenerateFileNode take part
NoProducers == [p \in {} |-> <<>>]

NoNode == [pc |-> "none"]

\* the state of the producers and of the GenerateFileNode
outside == <<prod, mutex, policy, actor, node>>

OutsideIdle ==
    /\ prod = NoProducers
    /\ mutex = "free"
    /\ policy = "none"
    /\ actor = "none"
    /\ node = NoNode

Install(P) ==
    /\ oss_' = P.L.oss
    /\ elements_' = P.L.n
    /\ cout' = P.cout
    /\ aborted' = P.aborted
    /\ outputs' = P.outputs
    /\ prevElements' = elements_
    /\ raised' = FALSE
    /\ UNCHANGED <<nrvo, elide_tmp, ndebug, sink_broken>>

Init ==
    /\ oss_ = <<>>
    /\ elements_ = 0
    /\ cout = <<>>
    /\ live = 0
    /\ aborted = FALSE
    /\ nrvo \in BOOLEAN
    /\ elide_tmp \in BOOLEAN
    /\ nrvo => elide_tmp   \* no build elides the named object but not the temporary
    /\ ndebug \in BOOLEAN
    /\ clock \in ClockStarts
    /\ fields = <<>>
    /\ lastOp = "init"
    /\ started = 0
    /\ released = 0
    /\ outputs = 0
    /\ overlapped = FALSE
    /\ appends = 0
    /\ prevElements = 0
    /\ sink_broken = FALSE
    /\ raised = FALSE
    /\ OutsideIdle

\* a caller runs logger.line() and holds the JsonLine
StartLine ==
    /\ ~aborted
    /\ started < MaxRecords
    /\ Install(Line(Cur, clock))
    /\ clock' = clock + 1
    /\ live' = live + 1
    /\ fields' = <<TsKey, IntV(clock)>>
    /\ lastOp' = "line"
    /\ started' = started + 1
    /\ overlapped' = (overlapped \/ live > 0)
    /\ UNCHANGED <<released, appends, outside>>

\* a caller runs logger << t and holds the JsonLine
Emit(t) ==
    /\ ~aborted
    /\ started < MaxRecords
    /\ appends < MaxAppends
    /\ Install(LoggerShl(Cur, clock, t))
    /\ clock' = clock + 1
    /\ live' = live + 1
    /\ fields' = <<TsKey, IntV(clock), t>>
    /\ lastOp' = "logger<<"
    /\ started' = started + 1
    /\ overlapped' = (overlapped \/ live > 0)
    /\ appends' = appends + 1
    /\ UNCHANGED <<released, outside>>

\* a caller runs line << t on a JsonLine it holds
AppendValue(t) ==
    /\ ~aborted
    /\ live > 0
    /\ appends < MaxAppends
    /\ Install([Cur EXCEPT !.L = Shl(@, t)])
    /\ fields' = Append(fields, t)
    /\ lastOp' = "line<<"
    /\ appends' = appends + 1
    /\ UNCHANGED <<live, started, released, overlapped, clock, outside>>

\* a JsonLine a caller holds goes out of scope
Release ==
    /\ ~aborted
    /\ live > 0
    /\ Install(Destroy(Cur))
    /\ live' = live - 1
    /\ released' = released + 1
    /\ lastOp' = "~JsonLine"
    /\ UNCHANGED <<fields, started, overlapped, appends, clock, outside>>

Next ==
    \/ StartLine
    \/ \E t \in Keys : Emit(t)
    \/ \E t \in Inputs(elements_) : AppendValue(t)
    \/ Release

Spec == Init /\ [][Next]_vars

-----------------------------------------------------------------------------
(* The logger on a device that stops taking output *)

\* the device behind std::cout fills up or is closed
SinkBreaks ==
    /\ ~aborted
    /\ ~sink_broken
    /\ sink_broken' = TRUE
    /\ lastOp' = "sink breaks"
    /\ UNCHANGED <<oss_, elements_, cout, live, aborted, nrvo, elide_tmp, ndebug,
                   clock, fields, started, released, outputs, overlapped, appends,
                   prevElements, raised, outside>>

NextSink == Next \/ SinkBreaks

SpecSink == Init /\ [][NextSink]_vars

-----------------------------------------------------------------------------
(* Several producers, each a thread with its own JsonLine objects, on one   *)
(* JsonLogger; the callers lock one mutex around their calls                *)

Producers == {"p1", "p2"}

\* what the two producers put: each its own key and its own value
ProducerKey == [p \in Producers |-> IF p = "p1" THEN StrV(<<"a">>) ELSE StrV(<<Quote>>)]

ProducerValue == [p \in Producers |-> IF p = "p1" THEN IntV(1) ELSE StrV(<<",">>)]

\* how long a caller holds the mutex: around each single call, or from
\* logger.line() to the end of the JsonLine's scope
Policies == {"call", "record"}

\* pc: whether the producer holds a JsonLine; mine: the fields of its record,
\* "ts" and the clock reading first; disturbed: line() ran for another record
\* since its own line(); mixed: another JsonLine was put to since its own line()
IdleProducer == [pc |-> "idle", mine |-> <<>>, disturbed |-> FALSE, mixed |-> FALSE]

InitProducers ==
    /\ oss_ = <<>>
    /\ elements_ = 0
    /\ cout = <<>>
    /\ live = 0
    /\ aborted = FALSE
    /\ nrvo \in BOOLEAN
    /\ elide_tmp \in BOOLEAN
    /\ nrvo => elide_tmp
    /\ ndebug \in BOOLEAN
    /\ clock \in ClockStarts
    /\ fields = <<>>
    /\ lastOp = "init"
    /\ started = 0
    /\ released = 0
    /\ outputs = 0
    /\ overlapped = FALSE
    /\ appends = 0
    /\ prevElements = 0
    /\ sink_broken = FALSE
    /\ raised = FALSE
    /\ prod = [p \in Producers |-> IdleProducer]
    /\ mutex = "free"
    /\ policy \in Policies
    /\ actor = "none"
    /\ node = NoNode

\* producer p locks the mutex (it is free, or p holds it for its record)
\* and runs logger.line()
ProducerStartLine(p) ==
    /\ ~aborted
    /\ prod[p].pc = "idle"
    /\ mutex = "free"
    /\ started < MaxRecords
    /\ Install(Line(Cur, clock))
    /\ clock' = clock + 1
    /\ live' = live + 1
    /\ started' = started + 1
    /\ overlapped' = (overlapped \/ live > 0)
    /\ prod' = [q \in Producers |->
                  IF q = p
                  THEN [pc |-> "holding", mine |-> <<TsKey, IntV(clock)>>,
                        disturbed |-> FALSE, mixed |-> FALSE]
                  ELSE IF prod[q].pc = "holding"
                       THEN [prod[q] EXCEPT !.disturbed = TRUE]
                       ELSE prod[q]]
    /\ mutex' = IF policy = "record" THEN p ELSE "free"
    /\ actor' = p
    /\ lastOp' = "line"
    /\ UNCHANGED <<fields, released, appends, policy, node>>

\* producer p runs line << t on its JsonLine: its key after an even number of
\* fields of its record, its value after an odd number
ProducerAppend(p) ==
    /\ ~aborted
    /\ prod[p].pc = "holding"
    /\ mutex \in {"free", p}
    /\ appends < MaxAppends
    /\ LET t == IF Even(Len(prod[p].mine)) THEN ProducerKey[p] ELSE ProducerValue[p]
       IN  /\ Install([Cur EXCEPT !.L = Shl(@, t)])
           /\ prod' = [q \in Producers |->
                         IF q = p
                         THEN [prod[q] EXCEPT !.mine = Append(@, t)]
                         ELSE IF prod[q].pc = "holding"
                              THEN [prod[q] EXCEPT !.mixed = TRUE]
                              ELSE prod[q]]
    /\ actor' = p
    /\ lastOp' = "line<<"
    /\ appends' = appends + 1
    /\ UNCHANGED <<live, clock, fields, started, released, overlapped, mutex,
                   policy, node>>

\* the JsonLine of producer p goes out of scope after whole pairs, and p
\* unlocks the mutex
ProducerRelease(p) ==
    /\ ~aborted
    /\ prod[p].pc = "holding"
    /\ mutex \in {"free", p}
    /\ Even(Len(prod[p].mine))
    /\ Install(Destroy(Cur))
    /\ prod' = [prod EXCEPT ![p].pc = "idle"]
    /\ mutex' = "free"
    /\ actor' = p
    /\ live' = live - 1
    /\ released' = released + 1
    /\ lastOp' = "~JsonLine"
    /\ UNCHANGED <<clock, fields, started, overlapped, appends, policy, node>>

NextProducers ==
    \E p \in Producers :
        \/ ProducerStartLine(p)
        \/ ProducerAppend(p)
        \/ ProducerRelease(p)

SpecProducers == InitProducers /\ [][NextProducers]_vars

-----------------------------------------------------------------------------
(* GenerateFileNode::PushData on one worker *)

MaxSize == 3

MaxWorkers == 3

MaxLines == 2

\* the width of size_t in bits, scaled down
SizeWidth == 4

SizeMod == 2 ^ SizeWidth

\* arithmetic on size_t
SizeT(x) == x % SizeMod

\* a line of the file as std::getline delivers it: empty, a text, or a text
\* with a carriage return at its end
FileLines == {<<>>, <<"x">>, <<"x", "CR">>}

Files == UNION {[1..n -> FileLines] : n \in 0..MaxLines}

\* a string literal, a const char[N] with its terminator
Literal(chars) == CArr(chars \o <<"NUL">>)

LocalElements_LastGetsRemainder(size, n, rank) ==
    IF SizeT(n - 1) = rank THEN size % n ELSE size \div n

\* local_elements of the worker of this rank among n
LocalElements(size, n, rank) ==
    LET elements_per_worker == size \div n
    IN  IF SizeT(n - 1) = rank
        THEN SizeT(size - SizeT(SizeT(n - 1) * elements_per_worker))
        ELSE elements_per_worker

\* pc: the place in PushData; file: the lines not read yet; size: the length
\* of the element vector; pushed: the calls of PushItem; valid: every
\* rand_element so far was an index of the element vector
InitNode ==
    /\ oss_ = <<>>
    /\ elements_ = 0
    /\ cout = <<>>
    /\ live = 0
    /\ aborted = FALSE
    /\ nrvo \in BOOLEAN
    /\ elide_tmp \in BOOLEAN
    /\ nrvo => elide_tmp
    /\ ndebug \in BOOLEAN
    /\ clock \in ClockStarts
    /\ fields = <<>>
    /\ lastOp = "init"
    /\ started = 0
    /\ released = 0
    /\ outputs = 0
    /\ overlapped = FALSE
    /\ appends = 0
    /\ prevElements = 0
    /\ sink_broken = FALSE
    /\ raised = FALSE
    /\ prod = NoProducers
    /\ mutex = "free"
    /\ policy = "none"
    /\ actor = "none"
    /\ \E size \in 0..MaxSize, n \in 1..MaxWorkers, f \in Files :
         \E rank \in 0..(n - 1) :
            node = [pc |-> "read", size_ |-> size, num_workers |-> n,
                    my_rank |-> rank, file |-> f, size |-> 0,
                    local_elements |-> 0, i |-> 0, hi |-> 0, pushed |-> 0,
                    valid |-> TRUE]

logger == <<oss_, elements_, cout, live, aborted, nrvo, elide_tmp, ndebug, clock,
            fields, started, released, outputs, overlapped, appends,
            prevElements, sink_broken, raised, prod, mutex, policy, actor>>

\* one turn of the loop on std::getline; *line.rbegin() of an empty line is
\* undefined: the process dies, or reads some character and goes on
NodeReadLine ==
    /\ node.pc = "read"
    /\ node.file # <<>>
    /\ \/ node' = [node EXCEPT !.file = Tail(@), !.size = @ + 1]
       \/ /\ Head(node.file) = <<>>
          /\ node' = [node EXCEPT !.pc = "crashed"]
    /\ lastOp' = "getline"
    /\ UNCHANGED logger

\* the end of the file: local_elements, and the distribution over
\* 0 .. elements_.size() - 1, computed on size_t
NodeShares ==
    /\ node.pc = "read"
    /\ node.file = <<>>
    /\ node' = [node EXCEPT
                   !.pc = "sample",
                   !.local_elements = LocalElements(node.size_, node.num_workers,
                                                    node.my_rank),
                   !.hi = SizeT(node.size - 1)]
    /\ lastOp' = "shares"
    /\ UNCHANGED logger

\* one turn of the sampling loop; elements_[rand_element] beyond the vector is
\* undefined: the process dies, or PushItem gets whatever the memory holds
NodeSample ==
    /\ node.pc = "sample"
    /\ node.i < node.local_elements
    /\ \E rand_element \in 0..node.hi :
          IF rand_element < node.size
          THEN node' = [node EXCEPT !.i = @ + 1, !.pushed = @ + 1]
          ELSE \/ node' = [node EXCEPT !.pc = "crashed", !.valid = FALSE]
               \/ node' = [node EXCEPT !.i = @ + 1, !.pushed = @ + 1,
                                       !.valid = FALSE]
    /\ lastOp' = "PushItem"
    /\ UNCHANGED logger

\* Super::logger_ << "class" << "GenerateFileNode" << "event" << "done";
NodeLog ==
    /\ node.pc = "sample"
    /\ node.i = node.local_elements
    /\ LET P1 == LoggerShl(Cur, clock, Literal(<<"c", "l", "a", "s", "s">>))
           P2 == ShlP(P1, Literal(<<"G", "e", "n", "e", "r", "a", "t", "e",
                                    "F", "i", "l", "e", "N", "o", "d", "e">>))
           P3 == ShlP(P2, Literal(<<"e", "v", "e", "n", "t">>))
           P4 == ShlP(P3, Literal(<<"d", "o", "n", "e">>))
           P5 == Destroy(P4)
       IN  /\ Install(P5)
           /\ node' = [node EXCEPT !.pc = IF P5.aborted THEN "aborted" ELSE "done"]
    /\ clock' = clock + 1
    /\ lastOp' = "logger<<"
    /\ UNCHANGED <<live, fields, started, released, overlapped, appends,
                   prod, mutex, policy, actor>>

NextNode ==
    \/ NodeReadLine
    \/ NodeShares
    \/ NodeSample
    \/ NodeLog

SpecNode == InitNode /\ [][NextNode]_vars

-----------------------------------------------------------------------------
(* The text encoding alone: one text, put once into an empty collector *)

MaxTextLen == 3

\* the characters of the texts: the eight the escaping switch lists and
\* ordinary ones, among them letters that follow '\' in an escape
TextAlphabet == {Backslash, Quote, "/", "BS", "FF", "LF", "CR", "TAB", "a", "n"}

Texts == UNION {[1..n -> TextAlphabet] : n \in 0..MaxTextLen}

InitText ==
    /\ oss_ = <<>>
    /\ elements_ = 0
    /\ cout = <<>>
    /\ live = 0
    /\ aborted = FALSE
    /\ nrvo = TRUE
    /\ elide_tmp = TRUE
    /\ ndebug = FALSE
    /\ clock = 0
    /\ \E s \in Texts : fields \in {<<StrV(s)>>, <<CArr(s \o <<"NUL">>)>>}
    /\ lastOp = "init"
    /\ started = 0
    /\ released = 0
    /\ outputs = 0
    /\ overlapped = FALSE
    /\ appends = 0
    /\ prevElements = 0
    /\ sink_broken = FALSE
    /\ raised = FALSE
    /\ OutsideIdle

\* PutDecay of the text: Put(JsonLine&, std::string const&) for a std::string,
\* Put(JsonLine&, const char* const&) for a character array
PutText ==
    /\ lastOp = "init"
    /\ LET L == PutDecay(Logger(oss_, elements_), fields[1])
       IN  oss_' = L.oss /\ elements_' = L.n
    /\ lastOp' = "Put"
    /\ prevElements' = elements_
    /\ UNCHANGED <<cout, live, aborted, nrvo, elide_tmp, ndebug, clock, fields,
                   started, released, outputs, overlapped, appends,
                   sink_broken, raised, outside>>

SpecText == InitText /\ [][PutText]_vars

\* texts with any characters: also a control character the escaping switch
\* does not list, and the NUL character
AnyTexts == UNION {[1..n -> TextAlphabet \cup {"SOH", "NUL"}] : n \in 0..MaxTextLen}

\* a std::string holding the text, or a character array holding the text and
\* the terminator after it
InitAnyText ==
    /\ oss_ = <<>>
    /\ elements_ = 0
    /\ cout = <<>>
    /\ live = 0
    /\ aborted = FALSE
    /\ nrvo = TRUE
    /\ elide_tmp = TRUE
    /\ ndebug = FALSE
    /\ clock = 0
    /\ \E s \in AnyTexts : fields \in {<<StrV(s)>>, <<CArr(s \o <<"NUL">>)>>}
    /\ lastOp = "init"
    /\ started = 0
    /\ released = 0
    /\ outputs = 0
    /\ overlapped = FALSE
    /\ appends = 0
    /\ prevElements = 0
    /\ sink_broken = FALSE
    /\ raised = FALSE
    /\ OutsideIdle

SpecAnyText == InitAnyText /\ [][PutText]_vars

-----------------------------------------------------------------------------
(* One std::vector put to a JsonLine *)

MaxVecLen == 3

\* the elements of a std::vector<Type>, for Type bool, int, std::string,
\* std::vector<int> and std::vector<std::vector<int>>
ElementTypes ==
    { {BoolV(TRUE), BoolV(FALSE)},
      {IntV(1), IntV(2), IntV(3)},
      {StrV(<<",">>), StrV(<<"]", Quote>>)},
      {VecV(<<>>), VecV(<<IntV(1), IntV(-42)>>)},
      {VecV(<<>>), VecV(<<VecV(<<IntV(1), IntV(2)>>), VecV(<<>>)>>)} }

Vectors == UNION {[1..n -> E] : n \in 0..MaxVecLen, E \in ElementTypes}

\* the logger when the vector is put: right after line() was reset, after a
\* key, after a key and its value
LoggersBefore ==
    LET L1 == Shl(Logger(<<>>, 0), StrV(<<"k">>))
    IN  {Logger(<<>>, 0), L1, Shl(L1, IntV(1))}

InitVector ==
    /\ \E L \in LoggersBefore : oss_ = L.oss /\ elements_ = L.n
    /\ cout = <<>>
    /\ live = 1
    /\ aborted = FALSE
    /\ nrvo = TRUE
    /\ elide_tmp = TRUE
    /\ ndebug = FALSE
    /\ clock = 0
    /\ \E vec \in Vectors : fields = <<VecV(vec)>>
    /\ lastOp = "init"
    /\ started = 0
    /\ released = 0
    /\ outputs = 0
    /\ overlapped = FALSE
    /\ appends = 0
    /\ prevElements = 0
    /\ sink_broken = FALSE
    /\ raised = FALSE
    /\ OutsideIdle

\* line << vec
PutVectorValue ==
    /\ lastOp = "init"
    /\ LET L == Shl(Logger(oss_, elements_), fields[1])
       IN  oss_' = L.oss /\ elements_' = L.n
    /\ lastOp' = "line<<"
    /\ prevElements' = elements_
    /\ appends' = appends + 1
    /\ UNCHANGED <<cout, live, aborted, nrvo, elide_tmp, ndebug, clock, fields,
                   started, released, outputs, overlapped, sink_broken, raised,
                   outside>>

SpecVector == InitVector /\ [][PutVectorValue]_vars

-----------------------------------------------------------------------------
(* Reading std::cout back: lines, and a JSON reader (RFC 8259, no white space) *)

\* the index of the first "LF" of s at or after i, Len(s) + 1 if there is none
RECURSIVE NextLF(_, _)
NextLF(s, i) == IF i > Len(s) \/ s[i] = "LF" THEN i ELSE NextLF(s, i + 1)

\* the text of cout cut at every "LF"; text after the last "LF" is a last line
RECURSIVE SplitFrom(_, _, _)
SplitFrom(s, i, acc) ==
    IF i > Len(s) THEN acc
    ELSE LET j == NextLF(s, i)
         IN  SplitFrom(s, j + 1, Append(acc, SubSeq(s, i, j - 1)))

SplitLines(s) == SplitFrom(s, 1, <<>>)

Lines == SplitLines(cout)

Fail == [ok |-> FALSE]

Ok(v, j) == [ok |-> TRUE, val |-> v, next |-> j]

\* the character an escape letter stands for in a JSON string
Unescape ==
    [e \in {Quote, Backslash, "/", "b", "f", "n", "r", "t"} |->
        CASE e = Quote     -> Quote
          [] e = Backslash -> Backslash
          [] e = "/"       -> "/"
          [] e = "b"       -> "BS"
          [] e = "f"       -> "FF"
          [] e = "n"       -> "LF"
          [] e = "r"       -> "CR"
          [] e = "t"       -> "TAB"]

\* the characters of a JSON string from s[i] up to the closing quote: a raw
\* control character or an unknown escape is an error
RECURSIVE ParseStringBody(_, _, _)
ParseStringBody(s, i, acc) ==
    IF i > Len(s) THEN Fail
    ELSE IF s[i] = Quote THEN Ok(acc, i + 1)
    ELSE IF s[i] = Backslash
         THEN IF i + 1 <= Len(s) /\ s[i + 1] \in DOMAIN Unescape
              THEN ParseStringBody(s, i + 2, Append(acc, Unescape[s[i + 1]]))
              ELSE Fail
    ELSE IF s[i] \in ControlChars THEN Fail
    ELSE ParseStringBody(s, i + 1, Append(acc, s[i]))

\* a JSON string starting at s[i]
ParseString(s, i) ==
    IF i <= Len(s) /\ s[i] = Quote THEN ParseStringBody(s, i + 1, <<>>) ELSE Fail

IsDigit(c) == \E d \in 1..10 : DigitChars[d] = c

DigitValue(c) == (CHOOSE d \in 1..10 : DigitChars[d] = c) - 1

RECURSIVE ParseDigits(_, _, _)
ParseDigits(s, i, acc) ==
    IF i <= Len(s) /\ IsDigit(s[i])
    THEN ParseDigits(s, i + 1, acc * 10 + DigitValue(s[i]))
    ELSE Ok(acc, i)

\* a JSON number without fraction and exponent: -? (0 | [1-9][0-9]*)
ParseNat(s, i) ==
    IF i > Len(s) \/ ~IsDigit(s[i]) THEN Fail
    ELSE IF s[i] = "0" THEN Ok(0, i + 1)
    ELSE ParseDigits(s, i, 0)

ParseInt(s, i) ==
    IF i <= Len(s) /\ s[i] = "-"
    THEN LET r == ParseNat(s, i + 1) IN IF r.ok THEN Ok(-r.val, r.next) ELSE Fail
    ELSE ParseNat(s, i)

HasAt(s, i, word) ==
    /\ i + Len(word) - 1 <= Len(s)
    /\ SubSeq(s, i, i + Len(word) - 1) = word

RECURSIVE ParseValue(_, _)
RECURSIVE ParseElems(_, _, _)

\* the elements of a JSON array from s[i] up to the closing bracket
ParseElems(s, i, acc) ==
    LET r == ParseValue(s, i)
    IN  IF ~r.ok \/ r.next > Len(s) THEN Fail
        ELSE IF s[r.next] = "," THEN ParseElems(s, r.next + 1, Append(acc, r.val))
        ELSE IF s[r.next] = "]" THEN Ok(VecV(Append(acc, r.val)), r.next + 1)
        ELSE Fail

\* a JSON value starting at s[i]
ParseValue(s, i) ==
    IF i > Len(s) THEN Fail
    ELSE IF s[i] = Quote
         THEN LET r == ParseString(s, i)
              IN  IF r.ok THEN Ok(StrV(r.val), r.next) ELSE Fail
    ELSE IF HasAt(s, i, <<"t", "r", "u", "e">>) THEN Ok(BoolV(TRUE), i + 4)
    ELSE IF HasAt(s, i, <<"f", "a", "l", "s", "e">>) THEN Ok(BoolV(FALSE), i + 5)
    ELSE IF s[i] = "["
         THEN IF i + 1 <= Len(s) /\ s[i + 1] = "]"
              THEN Ok(VecV(<<>>), i + 2)
              ELSE ParseElems(s, i + 1, <<>>)
    ELSE LET r == ParseInt(s, i)
         IN  IF r.ok THEN Ok(IntV(r.val), r.next) ELSE Fail

\* the members of a JSON object from s[i] up to the closing brace, which must
\* end the text: key, value, key, value, ... in the order read
RECURSIVE ParseMembers(_, _, _)
ParseMembers(s, i, acc) ==
    LET k == ParseString(s, i)
    IN  IF ~k.ok \/ k.next > Len(s) \/ s[k.next] # ":" THEN Fail
        ELSE LET v == ParseValue(s, k.next + 1)
                 got == acc \o <<StrV(k.val), v.val>>
             IN  IF ~v.ok \/ v.next > Len(s) THEN Fail
                 ELSE IF s[v.next] = "," THEN ParseMembers(s, v.next + 1, got)
                 ELSE IF s[v.next] = "}" /\ v.next = Len(s) THEN Ok(got, v.next + 1)
                 ELSE Fail

\* a line read as one JSON object
ParseObject(s) ==
    IF Len(s) < 2 \/ s[1] # "{" THEN Fail
    ELSE IF s[2] = "}" THEN (IF Len(s) = 2 THEN Ok(<<>>, 3) ELSE Fail)
    ELSE ParseMembers(s, 2, <<>>)

\* the number of ':' of a line that stand outside every string and directly
\* inside the outer braces: one per top-level key/value pair
RECURSIVE ScanColons(_, _, _, _, _)
ScanColons(s, i, inString, depth, colons) ==
    IF i > Len(s) THEN colons
    ELSE IF inString
         THEN IF s[i] = Backslash THEN ScanColons(s, i + 2, TRUE, depth, colons)
              ELSE ScanColons(s, i + 1, s[i] # Quote, depth, colons)
    ELSE IF s[i] = Quote THEN ScanColons(s, i + 1, TRUE, depth, colons)
    ELSE IF s[i] \in {"{", "["} THEN ScanColons(s, i + 1, FALSE, depth + 1, colons)
    ELSE IF s[i] \in {"}", "]"} THEN ScanColons(s, i + 1, FALSE, depth - 1, colons)
    ELSE IF s[i] = ":" /\ depth = 1 THEN ScanColons(s, i + 1, FALSE, depth, colons + 1)
    ELSE ScanColons(s, i + 1, FALSE, depth, colons)

TopLevelPairs(s) == ScanColons(s, 1, FALSE, 0, 0)

-----------------------------------------------------------------------------
(* What the claims speak of *)

\* the text one value is encoded to
Encoded(v) == PutDecay(Logger(<<>>, 0), v).oss

\* the fields fs[i..] joined as the specification states it: nothing before the
\* first field, ':' before a field of odd index, ',' before one of even index
\* (indices from 0), nothing after the last
RECURSIVE JoinedFrom(_, _)
JoinedFrom(fs, i) ==
    IF i > Len(fs) THEN <<>>
    ELSE (IF i = 1 THEN <<>> ELSE IF (i - 1) % 2 = 1 THEN <<":">> ELSE <<",">>)
         \o Encoded(fs[i]) \o JoinedFrom(fs, i + 1)

Joined(fs) == JoinedFrom(fs, 1)

TsPrefix == <<Quote, "t", "s", Quote, ":">>

\* decimal digits with an optional sign
IsIntText(s) ==
    LET r == ParseInt(s, 1) IN r.ok /\ r.next = Len(s) + 1

\* the places of the line terminators of s
Newlines(s) == {i \in 1..Len(s) : s[i] = "LF"}

\* the places where a line of s starts
LineStarts(s) ==
    (IF s = <<>> THEN {} ELSE {1}) \cup {i + 1 : i \in Newlines(s) \ {Len(s)}}

\* at s[p] starts {"ts":<integer> and a ',' or the closing '}' follows
StartsWithTsAt(s, p) ==
    /\ HasAt(s, p, <<"{">> \o TsPrefix)
    /\ LET r == ParseInt(s, p + Len(TsPrefix) + 1)
       IN  r.ok /\ r.next <= Len(s) /\ s[r.next] \in {",", "}"}

LastLine == LET ls == Lines IN ls[Len(ls)]

-----------------------------------------------------------------------------
(* C1: every record begun and then released puts exactly one line on        *)
(* std::cout: the lines written are as many as the JsonLine objects the     *)
(* callers have released, a moved-from JsonLine writing nothing.            *)
C1_OneLinePerRelease ==
    ~aborted => (outputs = released /\ Len(Lines) = released)

(* C2: only the release of a JsonLine writes to std::cout: a step of        *)
(* JsonLogger::line, of JsonLogger::operator<< or of JsonLine::operator<<   *)
(* leaves std::cout as it was.                                              *)
C2_OnlyReleaseWrites ==
    [][lastOp' \in {"line", "logger<<", "line<<"} => cout' = cout]_vars

(* C3: releasing a JsonLine while the number of fields is odd ends in the   *)
(* failed assertion and writes nothing to std::cout.                        *)
C3_OddReleaseFails ==
    [][(lastOp' = "~JsonLine" /\ elements_ % 2 = 1) => (aborted' /\ cout' = cout)]_vars

(* C4: after line() and any number of appends the collector holds the       *)
(* encoded fields, "ts" and its value first, with nothing before the first, *)
(* ':' before every field of odd index, ',' before every later field of     *)
(* even index and nothing after the last; elements_ counts the fields.      *)
C4_BufferIsJoinedFields ==
    started > 0 => (oss_ = Joined(fields) /\ elements_ = Len(fields))

C4_Witness ==
    /\ lastOp = "line<<"
    /\ elements_ = 6
    /\ fields[6].kind = "vec"
    /\ fields[4].kind = "str"

(* C5: right after line() the collector holds exactly "ts":<integer> and    *)
(* elements_ is 2, whatever the record before left; and every line on       *)
(* std::cout starts with the pair "ts":<integer>.                           *)
C5_LineStartsWithTs ==
    /\ lastOp = "line" =>
          /\ elements_ = 2
          /\ HasAt(oss_, 1, TsPrefix)
          /\ IsIntText(SubSeq(oss_, Len(TsPrefix) + 1, Len(oss_)))
    /\ \A p \in LineStarts(cout) : StartsWithTsAt(cout, p)

C5_Witness ==
    /\ lastOp = "line"
    /\ prevElements = 5
    /\ started = 2
    /\ Len(Lines) >= 1

(* C6: records started and released one after another leave one line per    *)
(* record on std::cout, in the order of release, each ended by its line     *)
(* terminator, and the line a release writes holds the fields of its own    *)
(* record only.                                                             *)
C6_SequentialRecords ==
    (~overlapped /\ ~aborted) =>
        /\ Len(Lines) = released
        /\ (cout # <<>> => cout[Len(cout)] = "LF")
        /\ (lastOp = "~JsonLine" =>
               LastLine = <<"{">> \o Joined(fields) \o <<"}">>)

\* a line was written by the release of a JsonLine whose fields are in pairs
ReleasedInPairs == lastOp = "~JsonLine" /\ ~aborted /\ Even(Len(fields))

\* the text a value decodes to: a character array holds its text up to the NUL
RECURSIVE UpToNul(_, _)
UpToNul(a, i) ==
    IF i > Len(a) \/ a[i] = "NUL" THEN SubSeq(a, 1, i - 1) ELSE UpToNul(a, i + 1)

\* no text of the value holds a control character the escaping switch leaves
\* as it is
RECURSIVE NoRawControl(_)
NoRawControl(v) ==
    CASE v.kind \in {"str", "carr"} ->
            LET text == IF v.kind = "carr" THEN UpToNul(v.val, 1) ELSE v.val
            IN  \A i \in 1..Len(text) :
                    text[i] \in ControlChars => text[i] \in DOMAIN EscapeLetter
      [] v.kind = "vec" -> \A i \in 1..Len(v.val) : NoRawControl(v.val[i])
      [] OTHER -> TRUE

\* the line reads as a JSON object whose pairs are "ts" with an integer and
\* then the pairs of fs[3..], in order
ReadsBackAs(line, fs) ==
    LET r == ParseObject(line)
    IN  /\ r.ok
        /\ Len(r.val) = Len(fs)
        /\ r.val[1] = StrV(<<"t", "s">>)
        /\ r.val[2].kind = "int"
        /\ \A i \in 3..Len(fs) : r.val[i] = fs[i]

(* C7 as stated: every line written by releasing a JsonLine whose fields    *)
(* are key/value pairs reads back as a JSON object holding, after the ts    *)
(* pair, the pairs put, in the order put, for texts with any characters.    *)
C7_RoundTrip ==
    ReleasedInPairs => ReadsBackAs(LastLine, fields)

(* C7 amended: the same, for texts that hold no control character other     *)
(* than the eight the escaping switch lists.                                *)
C7_RoundTripEscapedControls ==
    (ReleasedInPairs /\ \A i \in 1..Len(fields) : NoRawControl(fields[i]))
        => ReadsBackAs(LastLine, fields)

C7_Witness ==
    /\ ReleasedInPairs
    /\ Len(fields) = 6
    /\ fields[3] = fields[5]
    /\ fields[3] = StrV(<<":", Quote>>)
    /\ fields[4].kind = "vec"
    /\ fields[6] = StrV(<<",", "LF", "CR", Backslash>>)

(* C8: the line a release writes has as many top-level key/value pairs as   *)
(* the record has completed pairs put by the caller, plus one for ts; a     *)
(* text with ',' ':' or '"' in it and a sequence add none.                  *)
C8_TopLevelPairs ==
    ReleasedInPairs => TopLevelPairs(LastLine) = ((Len(fields) - 2) \div 2) + 1

C8_Witness ==
    /\ ReleasedInPairs
    /\ Len(fields) = 6
    /\ fields[3] = StrV(<<":", Quote>>)
    /\ fields[4] = StrV(<<",", "LF", "CR", Backslash>>)
    /\ fields[6].kind = "vec"

(* C9: every call of Output puts exactly one line on std::cout: the text    *)
(* from '{' to '}' holds no raw newline and no raw carriage return, and the *)
(* only line terminator is the one after '}'.                               *)
C9_SingleLine ==
    /\ Cardinality(Newlines(cout)) = outputs
    /\ \A i \in 1..Len(cout) : cout[i] # "CR"
    /\ \A p \in LineStarts(cout) : cout[p] = "{"
    /\ \A i \in Newlines(cout) : i > 2 /\ cout[i - 1] = "}"
    /\ cout # <<>> => cout[Len(cout)] = "LF"

C9_Witness ==
    /\ ReleasedInPairs
    /\ Len(fields) = 4
    /\ fields[4] = StrV(<<",", "LF", "CR", Backslash>>)
    /\ outputs >= 2

(* C10: the encoding of a text, read as a JSON string, is the text again,   *)
(* for every text over backslash, quote, slash, backspace, form feed,       *)
(* newline, carriage return, tab and ordinary characters.                   *)
C10_EscapeRoundTrip ==
    lastOp = "Put" =>
        LET r == ParseString(oss_, 1)
        IN  /\ r.ok
            /\ r.next = Len(oss_) + 1
            /\ r.val = UpToNul(fields[1].val, 1)

C10_Witness ==
    /\ lastOp = "Put"
    /\ fields[1] = StrV(<<Backslash, "n", "LF">>)
    /\ oss_ = <<Quote, Backslash, Backslash, "n", Backslash, "n", Quote>>

(* C11: when the write of a release fails, the failure reaches the code     *)
(* releasing the JsonLine as an error (an exception or an error result),    *)
(* and what std::cout held before stays there.                              *)
C11_WriteFailureReported ==
    [][/\ (lastOp' = "~JsonLine" /\ outputs' > outputs /\ sink_broken) => raised'
       /\ Len(cout') >= Len(cout) /\ SubSeq(cout', 1, Len(cout)) = cout]_vars

(* C12: from any state of the logger and of std::cout, logger << key << value *)
(* leaves what logger.line() << key << value leaves: the same logger, and   *)
(* std::cout with the one line {"ts":<digits>,<key>:<value>} added.         *)
C12_EmitIsLineAppendRelease ==
    ~aborted =>
        \A k \in Keys, v \in Values :
            /\ EmitPair(Cur, clock, k, v) = LinePair(Cur, clock, k, v)
            /\ EmitPair(Cur, clock, k, v).cout =
                  cout \o <<"{">> \o TsPrefix \o IntToChars(clock) \o <<",">>
                       \o Encoded(k) \o <<":">> \o Encoded(v) \o <<"}", "LF">>

\* the same in the builds that construct the returned JsonLine in place
C12_HoldsWithElision == nrvo => C12_EmitIsLineAppendRelease

\* this step put exactly the line {<fs joined>} and its terminator on std::cout
WroteRecord(fs) == cout' = cout \o <<"{">> \o Joined(fs) \o <<"}", "LF">>

(* C13 as stated: with the producers' calls never overlapping (one mutex    *)
(* locked around each call, whether for the call or for the whole record),  *)
(* every line put on std::cout is a well-formed record holding exactly the  *)
(* fields the producer acting has put for one record, in its order.         *)
C13_OneProducersFields ==
    [][cout' # cout =>
          /\ WroteRecord(prod'[actor'].mine)
          /\ ReadsBackAs(<<"{">> \o Joined(prod'[actor'].mine) \o <<"}">>,
                         prod'[actor'].mine)]_vars

(* C13 amended: the same when every producer holds the mutex from its       *)
(* logger.line() to the end of its JsonLine's scope.                        *)
C13_OneProducersFieldsRecordLock ==
    [][(policy = "record" /\ cout' # cout) =>
          /\ WroteRecord(prod'[actor'].mine)
          /\ ReadsBackAs(<<"{">> \o Joined(prod'[actor'].mine) \o <<"}">>,
                         prod'[actor'].mine)]_vars

C13_Witness ==
    /\ policy = "record"
    /\ lastOp = "~JsonLine"
    /\ ~aborted
    /\ actor = "p2"
    /\ Len(prod["p2"].mine) = 4
    /\ prod["p1"].pc = "idle"
    /\ Len(prod["p1"].mine) = 4
    /\ Len(Lines) >= 2

(* C19 as stated: the line the release of a JsonLine writes holds exactly   *)
(* the ts pair and the fields put through that JsonLine, provided line()    *)
(* ran for no other record on the logger between that JsonLine's line() and *)
(* its release.                                                             *)
C19_OwnFieldsUnlessRestarted ==
    [][(lastOp' = "~JsonLine" /\ cout' # cout /\ ~prod[actor'].disturbed)
          => WroteRecord(prod[actor'].mine)]_vars

(* C19 amended: the same, provided that between that JsonLine's line() and  *)
(* its release line() ran for no other record and no other JsonLine of the  *)
(* logger was put to: the records of the logger do not overlap.             *)
C19_OwnFieldsUnlessOverlapped ==
    [][(/\ lastOp' = "~JsonLine"
        /\ cout' # cout
        /\ ~prod[actor'].disturbed
        /\ ~prod[actor'].mixed)
          => WroteRecord(prod[actor'].mine)]_vars

\* p1 has released its record of two pairs, begun after p2 began its own and
\* with p2 still holding its JsonLine
C19_Witness ==
    /\ lastOp = "~JsonLine"
    /\ ~aborted
    /\ actor = "p1"
    /\ prod["p1"].pc = "idle"
    /\ Len(prod["p1"].mine) = 6
    /\ ~prod["p1"].disturbed
    /\ ~prod["p1"].mixed
    /\ prod["p2"].pc = "holding"
    /\ prod["p2"].disturbed
    /\ outputs > 0

\* the shares of the workers of rank r .. n-1 added up
RECURSIVE SumOfShares(_, _, _)
SumOfShares(size, n, r) ==
    IF r >= n THEN 0 ELSE LocalElements(size, n, r) + SumOfShares(size, n, r + 1)

\* PushData is past the computing of local_elements
SharesComputed == node.pc \in {"sample", "done", "aborted"}

(* C14: for every size >= 0 and every number n >= 1 of workers the shares   *)
(* of the workers of rank 0..n-1 add up to size; every worker but the last  *)
(* takes floor(size/n), the last takes size - (n-1)*floor(size/n), and that *)
(* is not negative.                                                         *)
C14_SharesSumToSize ==
    SharesComputed =>
        LET size == node.size_
            n == node.num_workers
            share == IF node.my_rank = n - 1
                     THEN size - (n - 1) * (size \div n)
                     ELSE size \div n
        IN  /\ node.local_elements = share
            /\ share >= 0
            /\ SumOfShares(size, n, 0) = size

\* the last of three workers has its share of a size three does not divide
C14_Witness ==
    /\ SharesComputed
    /\ node.num_workers = 3
    /\ node.my_rank = 2
    /\ node.size_ = 2
    /\ node.local_elements = 2

\* the line PushData logs, for the clock reading ts
DoneRecord(ts) ==
    <<"{">> \o TsPrefix \o IntToChars(ts)
        \o <<",", Quote, "c", "l", "a", "s", "s", Quote, ":", Quote, "G", "e", "n",
             "e", "r", "a", "t", "e", "F", "i", "l", "e", "N", "o", "d", "e", Quote,
             ",", Quote, "e", "v", "e", "n", "t", Quote, ":", Quote, "d", "o", "n",
             "e", Quote, "}", "LF">>

(* C18: a run of PushData puts exactly one record on std::cout, after its   *)
(* last PushItem: nothing is written while it reads and samples, and when   *)
(* its log statement is over std::cout holds the one line                   *)
(* {"ts":<ts>,"class":"GenerateFileNode","event":"done"} and the counter of *)
(* fields is 6.                                                             *)
C18_OneDoneRecord ==
    /\ node.pc \in {"read", "sample", "crashed"} => cout = <<>>
    /\ node.pc \in {"done", "aborted"} =>
          /\ node.pc = "done"
          /\ outputs = 1
          /\ cout = DoneRecord(clock - 1)
          /\ elements_ = 6

(* C20: every rand_element drawn is an index of the element vector, and a   *)
(* run that comes to its log statement has called PushItem local_elements   *)
(* times, whatever the file holds, a file with no lines included.           *)
C20_SampledIndicesValid ==
    /\ node.valid
    /\ node.pc \in {"done", "aborted"} => node.pushed = node.local_elements

\* the text of a sequence as the specification states it: '[', the texts of
\* the elements with ',' after each but the last, ']'
RECURSIVE SequenceText(_)
RECURSIVE ElementsText(_, _)
SequenceText(vec) == <<"[">> \o ElementsText(vec, 1) \o <<"]">>

ElementsText(vec, i) ==
    IF i > Len(vec) THEN <<>>
    ELSE (IF vec[i].kind = "vec" THEN SequenceText(vec[i].val) ELSE Encoded(vec[i]))
         \o (IF i < Len(vec) THEN <<",">> ELSE <<>>)
         \o ElementsText(vec, i + 1)

\* what the key/value rule puts before field number n (from 0)
SeparatorBefore(n) == IF n = 0 THEN <<>> ELSE IF n % 2 = 1 THEN <<":">> ELSE <<",">>

(* C15: putting a std::vector writes '[', the encodings of its elements in  *)
(* order with ',' between them only, and ']' ("[]" for an empty one, a      *)
(* nested vector the same way); it is one field: elements_ grows by exactly *)
(* 1, and the key/value separator is written once, before '['.              *)
C15_SequenceIsOneField ==
    [][(lastOp' = "line<<" /\ fields[1].kind = "vec") =>
          /\ elements_' = elements_ + 1
          /\ oss_' = oss_ \o SeparatorBefore(elements_)
                          \o SequenceText(fields[1].val)]_vars

\* the scenario of the specification: ..."k":[1,2,3]
C15_Witness ==
    /\ lastOp = "line<<"
    /\ fields[1] = VecV(<<IntV(1), IntV(2), IntV(3)>>)
    /\ prevElements = 1
    /\ elements_ = 2
    /\ oss_ = <<Quote, "k", Quote, ":", "[", "1", ",", "2", ",", "3", "]">>

\* the image of a character under the escaping table of the specification
Image(c) == IF c \in DOMAIN EscapeLetter THEN <<Backslash, EscapeLetter[c]>> ELSE <<c>>

RECURSIVE Images(_, _)
Images(text, i) ==
    IF i > Len(text) THEN <<>> ELSE Image(text[i]) \o Images(text, i + 1)

\* the characters a text value gives to the encoding: all of a std::string,
\* those before the first NUL of a character array
InputCharacters(v) == IF v.kind = "carr" THEN UpToNul(v.val, 1) ELSE v.val

(* C16: the encoding of a text is '"', the image of each input character in *)
(* order, '"': backslash, quote, slash, backspace, form feed, newline,      *)
(* carriage return and tab become '\' and one character; every other        *)
(* character, a control character included, is written as it is.            *)
C16_TextEncoding ==
    lastOp = "Put" =>
        oss_ = <<Quote>> \o Images(InputCharacters(fields[1]), 1) \o <<Quote>>

\* a std::string with an escaped character, an unlisted control character and
\* a NUL in it
C16_Witness ==
    /\ lastOp = "Put"
    /\ fields[1] = StrV(<<"TAB", "SOH", "NUL">>)
    /\ oss_ = <<Quote, Backslash, "t", "SOH", "NUL", Quote>>

\* the characters of a character array before its terminator
ArrayContent(v) == SubSeq(v.val, 1, Len(v.val) - 1)

(* C17 as stated: putting a character array writes the text that putting a  *)
(* std::string holding the array's characters writes, whatever the          *)
(* characters are, a NUL among them included.                               *)
C17_ArrayAsString ==
    (lastOp = "Put" /\ fields[1].kind = "carr") =>
        oss_ = PutString(Logger(<<>>, 0), ArrayContent(fields[1])).oss

(* C17 amended: the same for an array that holds no NUL before its          *)
(* terminator.                                                              *)
C17_ArrayAsStringNoNul ==
    (/\ lastOp = "Put"
     /\ fields[1].kind = "carr"
     /\ \A i \in 1..Len(ArrayContent(fields[1])) : ArrayContent(fields[1])[i] # "NUL")
        => oss_ = PutString(Logger(<<>>, 0), ArrayContent(fields[1])).oss

C17_Witness ==
    /\ lastOp = "Put"
    /\ fields[1] = CArr(<<Quote, "SOH", "LF", "NUL">>)
    /\ oss_ = <<Quote, Backslash, Quote, "SOH", Backslash, "n", Quote>>

=============================================================================
